---- MODULE Spec2Model ----
(***************************************************************************)
(* Model of bigquery/train_propensity_model.py: the clinic propensity      *)
(* scoring pipeline.  main() runs four blocking warehouse jobs in order    *)
(* (train_model, evaluate_model, score_all_clinics, get_top_prospects)     *)
(* inside one try/except that prints the error and re-raises.              *)
(*                                                                         *)
(* Probabilities and scores are integers in hundredths (70 stands for      *)
(* 0.7).  Timestamps are whole days.  A ratio computed by the scoring      *)
(* query is kept as a fraction [num, den] so that no rounding is assumed.  *)
(***************************************************************************)
EXTENDS Integers, Sequences, FiniteSets, TLC

VARIABLES
    pc,         \* position of main(): a step name, or idle/except/complete/raised
    job,        \* status of the remote job of each step in the current run
    exc,        \* the exception in flight or raised by the current run
    out,        \* what the current run has printed, in order
    model,      \* the model artifact in the warehouse (NoModel before the first training)
    clinics,    \* the clinics table: clinic_id -> row
    now,        \* CURRENT_TIMESTAMP(), in days
    result,     \* what the last get_top_prospects call fetched and printed
    lastScored  \* history: what the last completed scoring statement read and wrote

vars == <<pc, job, exc, out, model, clinics, now, result, lastScored>>

----------------------------------------------------------------------------
(* Bounds of the model *)

NumClinics == 2
MaxCount == 2
MaxLimit == 2
MaxEvalRows == 1
MaxTicks == 1

(* Program constants *)

HotThreshold == 70
WarmThreshold == 40
LookbackDays == 30
DefaultLimit == 50

NULL == 0 - 1
NoModel == [bias |-> NULL, w_open |-> 0, w_resp |-> 0]
NoResult == [limit |-> NULL, rows |-> << >>, lines |-> << >>]
NoScored == [model |-> NoModel, inputs |-> << >>, rows |-> {}, written |-> {},
             pairs |-> << >>, prevPairs |-> << >>, repeat |-> FALSE]

Clinics == 1..NumClinics
Steps == <<"train_model", "evaluate_model", "score_all_clinics", "get_top_prospects">>
StepSet == {Steps[i] : i \in 1..Len(Steps)}
StepIndex(s) == CHOOSE i \in 1..Len(Steps) : Steps[i] = s

TickDays == LookbackDays \div 2

----------------------------------------------------------------------------
(* The scoring statement (score_all_clinics, the UPDATE ... FROM ML.PREDICT) *)

\* SQL division: a zero divisor is the error "division by zero".
Zero == [num |-> 0, den |-> 1]
DivError == [num |-> 0, den |-> 0]
Divide(n, d) == IF d = 0 THEN DivError ELSE [num |-> n, den |-> d]

\* CASE WHEN emails_sent > 0 THEN emails_opened / emails_sent ELSE 0 END
\* (variant: the division without its guard)
EmailOpenRateUnguarded(r) == Divide(r.emails_opened, r.emails_sent)
EmailOpenRate(r) ==
    IF r.emails_sent > 0 THEN Divide(r.emails_opened, r.emails_sent) ELSE Zero

\* CASE WHEN outreach_count > 0 THEN response_count / outreach_count ELSE 0 END
ResponseRate(r) ==
    IF r.outreach_count > 0 THEN Divide(r.response_count, r.outreach_count) ELSE Zero

\* The inner SELECT: the rows handed to ML.PREDICT, unconverted clinics only.
PredictRow(r) ==
    [clinic_id |-> r.clinic_id,
     emails_sent |-> r.emails_sent, emails_opened |-> r.emails_opened,
     outreach_count |-> r.outreach_count, response_count |-> r.response_count,
     email_open_rate |-> EmailOpenRate(r), response_rate |-> ResponseRate(r)]

\* (variant: without WHERE NOT converted)
InnerSelectAll(t) == {PredictRow(t[c]) : c \in DOMAIN t}
InnerSelect(t) == {PredictRow(t[c]) : c \in {d \in DOMAIN t : ~t[d].converted}}

ArithmeticError(rows) ==
    \E r \in rows : r.email_open_rate = DivError \/ r.response_rate = DivError

\* ML.PREDICT of a logistic regression: a deterministic function of the model
\* and the feature row; the linear predictor saturates at probability 0 and 1.
Clamp(x) == IF x < 0 THEN 0 ELSE IF x > 100 THEN 100 ELSE x
Term(w, q) == IF q.den = 0 THEN 0 ELSE (w * q.num) \div q.den
Probability(m, r) ==
    Clamp(m.bias + Term(m.w_open, r.email_open_rate) + Term(m.w_resp, r.response_rate))
PredictedLabelProbs(m, r) ==
    <<[label |-> 0, prob |-> 100 - Probability(m, r)],
      [label |-> 1, prob |-> Probability(m, r)]>>
MLPredict(m, rows) ==
    {[clinic_id |-> r.clinic_id, predicted_label_probs |-> PredictedLabelProbs(m, r)]
        : r \in rows}

\* array[OFFSET(i)]: zero-based indexing
Offset(arr, i) == arr[i + 1]

\* CASE WHEN prob >= 0.7 THEN 'hot' WHEN prob >= 0.4 THEN 'warm' ELSE 'cold' END
\* (variant: the thresholds exclusive)
TierStrict(prob) ==
    IF prob # NULL /\ prob > HotThreshold THEN "hot"
    ELSE IF prob # NULL /\ prob > WarmThreshold THEN "warm"
    ELSE "cold"
Tier(prob) ==
    IF prob # NULL /\ prob >= HotThreshold THEN "hot"
    ELSE IF prob # NULL /\ prob >= WarmThreshold THEN "warm"
    ELSE "cold"

\* The SET clause applied to row r of clinics joined with row p of the prediction.
\* (variant: the tier taken from the column as it was before the update)
SetOldScore(r, p, ts) ==
    [r EXCEPT !.propensity_score = Offset(p.predicted_label_probs, 1).prob,
              !.propensity_tier = Tier(r.propensity_score),
              !.last_scored_at = ts]
\* (variant: the probability added to the stored score)
SetAccumulate(r, p, ts) ==
    LET s == Clamp((IF r.propensity_score = NULL THEN 0 ELSE r.propensity_score)
                   + Offset(p.predicted_label_probs, 1).prob)
    IN [r EXCEPT !.propensity_score = s,
                 !.propensity_tier = Tier(s),
                 !.last_scored_at = ts]
SetClause(r, p, ts) ==
    [r EXCEPT !.propensity_score = Offset(p.predicted_label_probs, 1).prob,
              !.propensity_tier = Tier(Offset(p.predicted_label_probs, 1).prob),
              !.last_scored_at = ts]

\* UPDATE clinics c SET ... FROM (...) p WHERE c.clinic_id = p.clinic_id
ScoreAll(t, m, ts) ==
    LET P == MLPredict(m, InnerSelect(t))
    IN [c \in DOMAIN t |->
            IF \E p \in P : p.clinic_id = t[c].clinic_id
            THEN SetClause(t[c], CHOOSE p \in P : p.clinic_id = t[c].clinic_id, ts)
            ELSE t[c]]

\* What a scoring statement read (history only).
Inputs(t) ==
    [c \in DOMAIN t |->
        <<t[c].converted, t[c].emails_sent, t[c].emails_opened,
          t[c].outreach_count, t[c].response_count>>]
Pairs(t) == [c \in DOMAIN t |-> <<t[c].propensity_score, t[c].propensity_tier>>]
Written(t, u) ==
    {[clinic_id |-> c, score |-> u[c].propensity_score, tier |-> u[c].propensity_tier]
        : c \in {d \in DOMAIN t : ~t[d].converted}}

----------------------------------------------------------------------------
(* The prospects query (get_top_prospects) *)

\* WHERE propensity_tier IN ('hot','warm') AND NOT converted AND
\*   (last_outreach_date IS NULL OR last_outreach_date < now - 30 days)
\* (variant: without AND NOT converted)
EligibleAnyStatus(r, ts) ==
    /\ r.propensity_tier \in {"hot", "warm"}
    /\ (r.last_outreach_date = NULL \/ r.last_outreach_date < ts - LookbackDays)
Eligible(r, ts) ==
    /\ r.propensity_tier \in {"hot", "warm"}
    /\ ~r.converted
    /\ (r.last_outreach_date = NULL \/ r.last_outreach_date < ts - LookbackDays)

\* The selected columns of a row.
Project(r) ==
    [clinic_id |-> r.clinic_id, phone |-> r.phone, email |-> r.email,
     propensity_score |-> r.propensity_score, propensity_tier |-> r.propensity_tier]

Where(t, ts) == {Project(t[c]) : c \in {d \in DOMAIN t : Eligible(t[d], ts)}}

\* ORDER BY propensity_score DESC: every ordering of the rows in which the score
\* never increases (rows of equal score come in any order; NULL sorts last).
Orderings(S) ==
    {s \in [1..Cardinality(S) -> S] : \A i, j \in 1..Cardinality(S) : i # j => s[i] # s[j]}
\* (variant: ascending)
OrderByAsc(S) ==
    {s \in Orderings(S) :
        \A i, j \in 1..Len(s) : i < j => s[i].propensity_score <= s[j].propensity_score}
OrderBy(S) ==
    {s \in Orderings(S) :
        \A i, j \in 1..Len(s) : i < j => s[i].propensity_score >= s[j].propensity_score}

\* LIMIT n
Limit(s, n) == SubSeq(s, 1, IF n < Len(s) THEN n ELSE Len(s))

TopProspects(t, limit, ts) == {Limit(s, limit) : s \in OrderBy(Where(t, ts))}

\* for i, row in enumerate(results, 1): print(f"{i}. ..."); phone and email lines
\* only when the field is not empty.
RowLines(i, row) ==
    <<[kind |-> "rank", rank |-> i, clinic_id |-> row.clinic_id,
       score |-> row.propensity_score, tier |-> row.propensity_tier]>>
    \o (IF row.phone # "" THEN <<[kind |-> "phone", rank |-> i, clinic_id |-> row.clinic_id,
                                  score |-> NULL, tier |-> ""]>> ELSE << >>)
    \o (IF row.email # "" THEN <<[kind |-> "email", rank |-> i, clinic_id |-> row.clinic_id,
                                  score |-> NULL, tier |-> ""]>> ELSE << >>)

RECURSIVE EnumerateFrom(_, _)
EnumerateFrom(rows, start) ==
    IF rows = << >> THEN << >>
    ELSE EnumerateFrom(SubSeq(rows, 1, Len(rows) - 1), start)
         \o RowLines(start + Len(rows) - 1, rows[Len(rows)])

PrintRows(rows) == EnumerateFrom(rows, 1)

----------------------------------------------------------------------------
(* The warehouse before the first run *)

\* Feature and contact columns of the sample rows the pipeline runs on: a clinic
\* never contacted, and one contacted on day 0.
SampleRowA ==
    [emails_sent |-> 0, emails_opened |-> 0, outreach_count |-> 0, response_count |-> 0,
     phone |-> "", email |-> "info@clinic", last_outreach_date |-> NULL]
SampleRowB ==
    [emails_sent |-> 2, emails_opened |-> 1, outreach_count |-> 1, response_count |-> 1,
     phone |-> "555-0100", email |-> "", last_outreach_date |-> 0]
SampleRow(id) == IF id % 2 = 1 THEN SampleRowA ELSE SampleRowB

\* A clinic row that has never been scored.
NewRow(id, f, conv) ==
    [clinic_id |-> id, phone |-> f.phone, email |-> f.email,
     emails_sent |-> f.emails_sent, emails_opened |-> f.emails_opened,
     outreach_count |-> f.outreach_count, response_count |-> f.response_count,
     converted |-> conv, last_outreach_date |-> f.last_outreach_date,
     propensity_score |-> NULL, propensity_tier |-> "", last_scored_at |-> NULL]

\* The models CREATE OR REPLACE MODEL can leave behind (the training table is
\* not part of this program): bias and weights in hundredths.
Models ==
    {[bias |-> 39, w_open |-> 62, w_resp |-> 0],
     [bias |-> 40, w_open |-> 0, w_resp |-> 29],
     [bias |-> 100, w_open |-> 0 - 60, w_resp |-> 0]}

NoJobs == [s \in StepSet |-> "none"]

Init ==
    /\ pc = "idle"
    /\ job = NoJobs
    /\ exc = "none"
    /\ out = << >>
    /\ model = NoModel
    /\ clinics = [c \in Clinics |-> NewRow(c, SampleRow(c), FALSE)]
    /\ now = 0
    /\ result = NoResult
    /\ lastScored = NoScored

----------------------------------------------------------------------------
(* main() and the four steps *)

\* A printed line: what it says and the step or error it names.
Line(kind, arg) == [kind |-> kind, arg |-> arg]

NextStep(s) == IF StepIndex(s) < Len(Steps) THEN Steps[StepIndex(s) + 1] ELSE "epilogue"

\* main(): the banner, then the try block is entered.  A process that has ended
\* (complete or raised) can be followed by a new one.
Main ==
    /\ pc \in {"idle", "complete", "raised"}
    /\ pc' = Steps[1]
    /\ job' = NoJobs
    /\ exc' = "none"
    /\ out' = <<Line("banner", "")>>
    /\ result' = NoResult
    /\ UNCHANGED <<model, clinics, now, lastScored>>

\* A step prints its opening line and submits its statement: client.query(query).
\* The caller then blocks in .result() (the step stays the current one).
\* (variant: the step returns without waiting for the job)
SubmitNoWait(s) ==
    /\ pc = s
    /\ job[s] = "none"
    /\ out' = Append(out, Line("start", s))
    /\ job' = [job EXCEPT ![s] = "running"]
    /\ pc' = NextStep(s)
    /\ UNCHANGED <<exc, model, clinics, now, result, lastScored>>
Submit(s) ==
    /\ pc = s
    /\ job[s] = "none"
    /\ out' = Append(out, Line("start", s))
    /\ job' = [job EXCEPT ![s] = "running"]
    /\ UNCHANGED <<pc, exc, model, clinics, now, result, lastScored>>

\* client.query() or .result() raises: the exception leaves the step and reaches
\* the except clause of main().
RemoteFailure(s) ==
    /\ pc = s
    /\ job[s] \in {"none", "running"}
    /\ job' = [job EXCEPT ![s] = "failed"]
    /\ out' = IF job[s] = "none" THEN Append(out, Line("start", s)) ELSE out
    /\ exc' = "remote error"
    /\ pc' = "except"
    /\ UNCHANGED <<model, clinics, now, result, lastScored>>

\* train_model: the job completes, the model is created or replaced.
TrainDone ==
    /\ pc = "train_model"
    /\ job[pc] = "running"
    /\ model' \in Models
    /\ job' = [job EXCEPT ![pc] = "done"]
    /\ out' = Append(out, Line("done", pc))
    /\ pc' = NextStep(pc)
    /\ UNCHANGED <<exc, clinics, now, result, lastScored>>

\* evaluate_model: for row in results: print the five metrics of the row.
MetricsLines(n) == [i \in 1..n |-> Line("metrics", "")]
EvaluateDone ==
    /\ pc = "evaluate_model"
    /\ job[pc] = "running"
    /\ model # NoModel
    /\ \E n \in 0..MaxEvalRows :
        out' = out \o MetricsLines(n)
    /\ job' = [job EXCEPT ![pc] = "done"]
    /\ pc' = NextStep(pc)
    /\ UNCHANGED <<exc, model, clinics, now, result, lastScored>>

\* score_all_clinics: the UPDATE runs as one statement; an arithmetic error in
\* it fails the job.
\* History: what the statement read and wrote; repeat says that the statement
\* before it ran with the same model on the same inputs, and prevPairs is then
\* what that statement left in the table.
Scored(t, m, u) ==
    LET same == lastScored # NoScored /\ lastScored.model = m
                /\ lastScored.inputs = Inputs(t)
    IN [model |-> m, inputs |-> Inputs(t), rows |-> InnerSelect(t),
        written |-> Written(t, u), pairs |-> Pairs(u),
        prevPairs |-> IF same THEN lastScored.pairs ELSE Pairs(u),
        repeat |-> same]
ScoreDone ==
    /\ pc = "score_all_clinics"
    /\ job[pc] = "running"
    /\ model # NoModel
    /\ IF ArithmeticError(InnerSelect(clinics))
       THEN /\ job' = [job EXCEPT ![pc] = "failed"]
            /\ exc' = "division by zero"
            /\ pc' = "except"
            /\ UNCHANGED <<out, clinics, lastScored>>
       ELSE /\ clinics' = ScoreAll(clinics, model, now)
            /\ lastScored' = Scored(clinics, model, clinics')
            /\ job' = [job EXCEPT ![pc] = "done"]
            /\ out' = Append(out, Line("done", pc))
            /\ pc' = NextStep(pc)
            /\ UNCHANGED exc
    /\ UNCHANGED <<model, now, result>>

\* get_top_prospects(limit): the rows the query returns, and the lines printed.
Fetched(limit, rows) == [limit |-> limit, rows |-> rows, lines |-> PrintRows(rows)]
ReportDone ==
    /\ pc = "get_top_prospects"
    /\ job[pc] = "running"
    /\ \E rows \in TopProspects(clinics, DefaultLimit, now) :
        result' = Fetched(DefaultLimit, rows)
    /\ job' = [job EXCEPT ![pc] = "done"]
    /\ pc' = NextStep(pc)
    /\ UNCHANGED <<exc, out, model, clinics, now, lastScored>>

\* get_top_prospects(limit) called on its own, with any limit; LIMIT with a
\* negative count is rejected by the warehouse and the call raises.
CallGetTopProspects(limit) ==
    /\ pc \in {"idle", "complete", "raised"}
    /\ IF limit < 0
       THEN result' = NoResult
       ELSE \E rows \in TopProspects(clinics, limit, now) :
                result' = Fetched(limit, rows)
    /\ UNCHANGED <<pc, job, exc, out, model, clinics, now, lastScored>>

\* The two closing prints of the try block.
Complete ==
    /\ pc = "epilogue"
    /\ out' = out \o <<Line("Pipeline complete", ""), Line("Next", "")>>
    /\ pc' = "complete"
    /\ UNCHANGED <<job, exc, model, clinics, now, result, lastScored>>

\* except Exception as e: print(f"Error: {e}"); raise
\* (variant: the except clause without raise)
ExceptReturns ==
    /\ pc = "except"
    /\ out' = Append(out, Line("Error", exc))
    /\ pc' = "complete"
    /\ UNCHANGED <<job, exc, model, clinics, now, result, lastScored>>
Except ==
    /\ pc = "except"
    /\ out' = Append(out, Line("Error", exc))
    /\ pc' = "raised"
    /\ UNCHANGED <<job, exc, model, clinics, now, result, lastScored>>

----------------------------------------------------------------------------
(* The rest of the world: the table is shared with the outreach system *)

\* A clinic becomes a customer (between two statements: a statement is atomic).
Convert(c) ==
    /\ \A s \in StepSet : job[s] # "running"
    /\ ~clinics[c].converted
    /\ clinics' = [clinics EXCEPT ![c].converted = TRUE]
    /\ UNCHANGED <<pc, job, exc, out, model, now, result, lastScored>>

\* Time passes between two runs.
Tick ==
    /\ pc \in {"idle", "complete", "raised"}
    /\ now < MaxTicks * TickDays
    /\ now' = now + TickDays
    /\ UNCHANGED <<pc, job, exc, out, model, clinics, result, lastScored>>

Next ==
    \/ Main
    \/ \E s \in StepSet : Submit(s)
    \/ \E s \in StepSet : RemoteFailure(s)
    \/ TrainDone
    \/ EvaluateDone
    \/ ScoreDone
    \/ ReportDone
    \/ Complete
    \/ Except
    \/ \E c \in Clinics : Convert(c)
    \/ Tick

Spec == Init /\ [][Next]_vars

----------------------------------------------------------------------------
(* The scoring statement on its own: a run of main() that has reached
   score_all_clinics, over every combination of the activity counters of the
   first clinic and a range of models. *)

WideRows ==
    {[emails_sent |-> a, emails_opened |-> b, outreach_count |-> c, response_count |-> d,
      phone |-> "555-0100", email |-> "info@clinic", last_outreach_date |-> NULL]
        : a, b, c, d \in 0..MaxCount}

WideModels ==
    {[bias |-> b, w_open |-> w, w_resp |-> 0 - w] : b \in 0..100, w \in {0, 12}}

InitScorer ==
    /\ pc = "score_all_clinics"
    /\ job = [NoJobs EXCEPT !["train_model"] = "done", !["evaluate_model"] = "done",
                            !["score_all_clinics"] = "running"]
    /\ exc = "none"
    /\ out = <<Line("banner", ""), Line("start", "train_model"),
               Line("done", "train_model"), Line("start", "evaluate_model"),
               Line("metrics", ""), Line("start", "score_all_clinics")>>
    /\ model \in WideModels
    /\ clinics \in {[c \in Clinics |-> NewRow(c, IF c = 1 THEN f ELSE SampleRow(c), FALSE)]
                        : f \in WideRows}
    /\ now = 0
    /\ result = NoResult
    /\ lastScored = NoScored

NextScorer == ScoreDone

SpecScorer == InitScorer /\ [][NextScorer]_vars

----------------------------------------------------------------------------
(* The prospects query on its own: get_top_prospects(limit) called on a table
   that earlier runs have scored, for every limit and every combination of
   score, conversion and last outreach. *)

ReportDay == LookbackDays + TickDays

\* A row as earlier runs can have left it: unscored, or scored on day 0.
ScoredRow(id, score, conv, outreach) ==
    [NewRow(id, SampleRow(id), conv) EXCEPT
        !.last_outreach_date = outreach,
        !.propensity_score = score,
        !.propensity_tier = IF score = NULL THEN "" ELSE Tier(score),
        !.last_scored_at = IF score = NULL THEN NULL ELSE 0]

ReportScores == {NULL, 39, 40, 70}
ReportOutreach == {NULL, ReportDay - LookbackDays, ReportDay - LookbackDays - 1}

InitReport ==
    /\ pc = "idle"
    /\ job = NoJobs
    /\ exc = "none"
    /\ out = << >>
    /\ model \in Models
    /\ clinics \in {[c \in Clinics |-> ScoredRow(c, ch[c][1], ch[c][2], ch[c][3])]
                        : ch \in [Clinics -> ReportScores \X BOOLEAN \X ReportOutreach]}
    /\ now = ReportDay
    /\ result = NoResult
    /\ lastScored = NoScored

NextReport == \E limit \in (0 - 1)..MaxLimit : CallGetTopProspects(limit)

SpecReport == InitReport /\ [][NextReport]_vars

----------------------------------------------------------------------------
(* Properties of main(): order of the steps and failures *)

StartLines == [i \in 1..Len(Steps) |-> Line("start", Steps[i])]
IsStartLine(line) == line.kind = "start"
Started == SelectSeq(out, IsStartLine)
IsMetrics(line) == line.kind = "metrics"
MetricsPrinted == Len(SelectSeq(out, IsMetrics))
CompletePrinted == \E i \in 1..Len(out) : out[i].kind = "Pipeline complete"

\* C1: in every run the steps start in the order train_model, evaluate_model,
\* score_all_clinics, get_top_prospects, each one only once the job of the step
\* before it has completed; none starts twice, and a run that prints
\* "Pipeline complete" has started and completed all four.
C1_StepsInOrder ==
    /\ Len(Started) <= Len(Steps)
    /\ Started = SubSeq(StartLines, 1, Len(Started))
    /\ \A i \in 1..Len(Steps) : (job[Steps[i]] # "none") <=> (i <= Len(Started))
    /\ \A i \in 2..Len(Steps) : job[Steps[i]] # "none" => job[Steps[i - 1]] = "done"
    /\ CompletePrinted =>
        /\ Started = StartLines
        /\ \A i \in 1..Len(Steps) : job[Steps[i]] = "done"

C1_Witness ==
    /\ pc = "complete"
    /\ CompletePrinted
    /\ Started = StartLines

\* C2: once the remote call of a step has failed, no later step is started in
\* the run, the failed step is not started again, main() is in its except
\* clause or has re-raised (after printing the error as its last line), and
\* "Pipeline complete" is not printed.
C2_FailureAborts ==
    \A i \in 1..Len(Steps) :
        job[Steps[i]] = "failed" =>
            /\ \A j \in (i + 1)..Len(Steps) : job[Steps[j]] = "none"
            /\ Len(Started) = i
            /\ pc \in {"except", "raised"}
            /\ exc # "none"
            /\ ~CompletePrinted
            /\ pc = "raised" => out[Len(out)] = Line("Error", exc)

C2_Witness ==
    /\ pc = "raised"
    /\ job["score_all_clinics"] = "failed"
    /\ out[Len(out)] = Line("Error", "remote error")

\* C8: the evaluator prints exactly one set of metrics, and an evaluation that
\* returns no row is fatal: the scorer and the reporter are not run.
C8_ZeroRowsFatal ==
    job["evaluate_model"] = "done" =>
        \/ MetricsPrinted = 1
        \/ /\ pc \in {"except", "raised"}
           /\ job["score_all_clinics"] = "none"
           /\ job["get_top_prospects"] = "none"

----------------------------------------------------------------------------
(* Properties of the scoring statement *)

\* C3: every score s the scorer writes comes with the tier hot if s >= 0.7,
\* warm if 0.4 <= s < 0.7 and cold if s < 0.4; 0.7 itself is hot and 0.4 warm.
C3_TierOfScore ==
    \A w \in lastScored.written :
        /\ w.score >= 70 => w.tier = "hot"
        /\ (w.score >= 40 /\ w.score < 70) => w.tier = "warm"
        /\ w.score < 40 => w.tier = "cold"

C3_Witness ==
    /\ \E w \in lastScored.written : w.score = 70 /\ w.tier = "hot"
    /\ \E w \in lastScored.written : w.score = 40 /\ w.tier = "warm"

\* C7: for every row the scorer processes, email_open_rate is 0 when
\* emails_sent = 0 and emails_opened / emails_sent otherwise, response_rate is 0
\* when outreach_count = 0 and response_count / outreach_count otherwise, and
\* the statement raises no arithmetic error.
IsZero(q) == q.num = 0 /\ q.den # 0
IsQuotient(q, n, d) == q.den # 0 /\ q.num * d = n * q.den
C7_GuardedRatios ==
    /\ exc # "division by zero"
    /\ job["score_all_clinics"] # "failed"
    /\ \A r \in lastScored.rows :
        /\ r.emails_sent = 0 => IsZero(r.email_open_rate)
        /\ r.emails_sent > 0 => IsQuotient(r.email_open_rate, r.emails_opened, r.emails_sent)
        /\ r.outreach_count = 0 => IsZero(r.response_rate)
        /\ r.outreach_count > 0 =>
              IsQuotient(r.response_rate, r.response_count, r.outreach_count)

C7_Witness ==
    /\ job["score_all_clinics"] = "done"
    /\ \E r \in lastScored.rows :
        /\ r.emails_sent = 0 /\ r.emails_opened > 0
        /\ r.outreach_count > 1 /\ r.response_count = 1

\* C6: a scoring statement that runs right after another one, with the same
\* model and the same input fields, leaves every record with the score and the
\* tier the first one left.
C6_ScorerIdempotent ==
    lastScored.repeat => lastScored.pairs = lastScored.prevPairs

C6_Witness ==
    /\ lastScored.repeat
    /\ \E w \in lastScored.written : w.score # NULL /\ w.tier # "cold"

\* C9: a scoring statement changes nothing but propensity_score,
\* propensity_tier and last_scored_at, and nothing at all in a converted record;
\* no other step of the program changes the table.
C9_Frame ==
    [][LET scoring == /\ job["score_all_clinics"] = "running"
                      /\ job'["score_all_clinics"] = "done"
           program == <<pc, job, exc, out, result>>' # <<pc, job, exc, out, result>>
       IN program =>
            /\ ~scoring => clinics' = clinics
            /\ scoring =>
                \A c \in DOMAIN clinics :
                    /\ clinics[c].converted => clinics'[c] = clinics[c]
                    /\ clinics'[c] =
                         [clinics[c] EXCEPT
                            !.propensity_score = clinics'[c].propensity_score,
                            !.propensity_tier = clinics'[c].propensity_tier,
                            !.last_scored_at = clinics'[c].last_scored_at]]_vars

C9_Witness ==
    /\ pc = "get_top_prospects"
    /\ \E c, d \in DOMAIN clinics :
        /\ clinics[c].converted
        /\ lastScored.inputs[c][1]
        /\ clinics[c].propensity_score = NULL
        /\ clinics[d].propensity_score # NULL

\* C10: in every reachable state, a record that has a propensity_score has the
\* propensity_tier the thresholds give for that score.
ThresholdTier(s) == IF s >= 70 THEN "hot" ELSE IF s >= 40 THEN "warm" ELSE "cold"
C10_TierMatchesScore ==
    \A c \in DOMAIN clinics :
        clinics[c].propensity_score # NULL =>
            clinics[c].propensity_tier = ThresholdTier(clinics[c].propensity_score)

C10_Witness ==
    /\ pc = "raised"
    /\ \E c \in DOMAIN clinics :
        /\ clinics[c].converted
        /\ clinics[c].propensity_score # NULL
        /\ clinics[c].propensity_score # Probability(model, PredictRow(clinics[c]))

----------------------------------------------------------------------------
(* Properties of the prospects query *)

Returned == {result.rows[i].clinic_id : i \in 1..Len(result.rows)}
ContactedWithin30Days(r) ==
    r.last_outreach_date # NULL /\ r.last_outreach_date >= now - 30
IsProspect(r) ==
    /\ r.propensity_tier \in {"hot", "warm"}
    /\ ~r.converted
    /\ ~ContactedWithin30Days(r)
IsRankLine(line) == line.kind = "rank"
RankLines == SelectSeq(result.lines, IsRankLine)

\* C4: the reporter's result holds no converted record, no record of tier cold
\* and no record last contacted within the last 30 days; a record never
\* contacted (and otherwise a prospect) is returned unless the limit cuts it.
C4_ReporterFilter ==
    /\ \A c \in Returned :
        /\ ~clinics[c].converted
        /\ clinics[c].propensity_tier # "cold"
        /\ ~ContactedWithin30Days(clinics[c])
    /\ (result.limit # NULL /\ Len(result.rows) < result.limit) =>
        \A c \in DOMAIN clinics :
            (/\ clinics[c].last_outreach_date = NULL
             /\ ~clinics[c].converted
             /\ clinics[c].propensity_tier \in {"hot", "warm"}) => c \in Returned

C4_Witness ==
    /\ Len(result.rows) < result.limit
    /\ \E c \in Returned : clinics[c].last_outreach_date = NULL
    /\ \E d \in DOMAIN clinics :
        /\ d \notin Returned
        /\ clinics[d].propensity_tier = "hot"
        /\ clinics[d].converted \/ clinics[d].last_outreach_date = now - 30

\* The parts of C5 that do not depend on how equal scores are ordered: at most
\* limit records, none left out that scores higher than one returned, and the
\* printed ranks 1, 2, ..., n in the order of the rows.
C5_TopAndRanked ==
    /\ Len(result.rows) <= result.limit
    /\ \A c \in DOMAIN clinics :
        (IsProspect(clinics[c]) /\ c \notin Returned) =>
            \A i \in 1..Len(result.rows) :
                clinics[c].propensity_score <= result.rows[i].propensity_score
    /\ Len(RankLines) = Len(result.rows)
    /\ \A i \in 1..Len(result.rows) :
        /\ RankLines[i].rank = i
        /\ RankLines[i].clinic_id = result.rows[i].clinic_id

\* C5 as stated: the returned records are sorted by score strictly descending.
C5_StrictlyDescending ==
    result.limit # NULL =>
        /\ C5_TopAndRanked
        /\ \A i, j \in 1..Len(result.rows) :
            i < j => result.rows[i].propensity_score > result.rows[j].propensity_score

\* C5 as amended: for any limit the reporter returns at most limit records,
\* sorted so that the score never increases (records of equal score in either
\* order); no prospect left out scores higher than one returned; the printed
\* ranks are 1, 2, ..., n in that order.
C5_Descending ==
    result.limit # NULL =>
        /\ C5_TopAndRanked
        /\ \A i, j \in 1..Len(result.rows) :
            i < j => result.rows[i].propensity_score >= result.rows[j].propensity_score

C5_Witness ==
    /\ result.limit = 1
    /\ Len(result.rows) = 1
    /\ \E c \in DOMAIN clinics :
        /\ c \notin Returned
        /\ IsProspect(clinics[c])
        /\ clinics[c].propensity_score < result.rows[1].propensity_score

====
